---- MODULE Spec2Model ----
(***************************************************************************)
(* A model of the expression evaluator: the two-pass lexer (parse_pos,     *)
(* parse_operators), the stack-based tree builder (parse_node and its      *)
(* helpers) and the recursive evaluator (exec_node) of src/src/tree/mod.rs,*)
(* with the Node predicates of src/src/node/mod.rs and the built-in        *)
(* functions of src/src/builtin/mod.rs.                                    *)
(*                                                                         *)
(* Text is a sequence of one-character strings.  A panic of the Rust code  *)
(* (unwrap on None, slice out of range) is the outcome "abort".            *)
(***************************************************************************)
EXTENDS Integers, Sequences, FiniteSets, TLC

VARIABLES raw, pos, operators, node, lex, parsing_nodes, opi, pc, err,
          contexts, functions, const_functions, result

vars == <<raw, pos, operators, node, lex, parsing_nodes, opi, pc, err,
          contexts, functions, const_functions, result>>

----------------------------------------------------------------------------
(* Generic helpers on sequences.                                           *)

Last(s) == s[Len(s)]

Front(s) == SubSeq(s, 1, Len(s) - 1)

RECURSIVE Gcd(_, _)
Gcd(a, b) == IF b = 0 THEN a ELSE Gcd(b, a % b)

Abs(n) == IF n < 0 THEN 0 - n ELSE n

----------------------------------------------------------------------------
(* serde_json::Value.  Every value is a record of one shape; `t` is the    *)
(* variant and only the field of that variant is meaningful.  A double is  *)
(* the exact rational n/d in lowest terms (d > 0).                         *)

VBase == [t |-> "null", b |-> FALSE, n |-> 0, d |-> 1, s |-> <<>>, a |-> <<>>, o |-> <<>>]

VNull == VBase

VBool(x) == [VBase EXCEPT !.t = "bool", !.b = x]

VNum(x) == [VBase EXCEPT !.t = "num", !.n = x]

VF64(num, den) ==
    LET g == Gcd(Abs(num), Abs(den))
        sg == IF den < 0 THEN 0 - 1 ELSE 1
    IN [VBase EXCEPT !.t = "f64", !.n = (sg * num) \div g, !.d = (sg * den) \div g]

VStr(x) == [VBase EXCEPT !.t = "str", !.s = x]

VArr(x) == [VBase EXCEPT !.t = "arr", !.a = x]

VObj(x) == [VBase EXCEPT !.t = "obj", !.o = x]

is_number(v) == v.t \in {"num", "f64"}

is_u64(v) == v.t = "num" /\ v.n >= 0

----------------------------------------------------------------------------
(* Errors and results.  A result is Ok(value), Err(error) or an abort.     *)

NoErr == [e |-> "None", n |-> 0, s |-> <<>>, v |-> VNull]

Error(name) == [NoErr EXCEPT !.e = name]

ErrorN(name, k) == [NoErr EXCEPT !.e = name, !.n = k]

ErrorS(name, str) == [NoErr EXCEPT !.e = name, !.s = str]

ErrorV(name, val) == [NoErr EXCEPT !.e = name, !.v = val]

Ok(val, lg) == [k |-> "ok", v |-> val, e |-> NoErr, log |-> lg]

Err(er, lg) == [k |-> "err", v |-> VNull, e |-> er, log |-> lg]

Abort(lg) == [k |-> "abort", v |-> VNull, e |-> NoErr, log |-> lg]

NoResult == [k |-> "none", v |-> VNull, e |-> NoErr, log |-> <<>>]

----------------------------------------------------------------------------
(* Number texts: str::parse::<u64>, ::<i64>, ::<f64>.  Exponent forms and  *)
(* the words inf/nan are not produced by any input alphabet below.         *)

Digits == {"0", "1", "2", "3", "4", "5", "6", "7", "8", "9"}

DigitVal(c) ==
    CASE c = "0" -> 0 [] c = "1" -> 1 [] c = "2" -> 2 [] c = "3" -> 3
      [] c = "4" -> 4 [] c = "5" -> 5 [] c = "6" -> 6 [] c = "7" -> 7
      [] c = "8" -> 8 [] c = "9" -> 9

AllDigits(s) == \A i \in 1..Len(s) : s[i] \in Digits

RECURSIVE DecVal(_)
DecVal(s) == IF s = <<>> THEN 0 ELSE 10 * DecVal(Front(s)) + DigitVal(Last(s))

RECURSIVE Pow10(_)
Pow10(k) == IF k = 0 THEN 1 ELSE 10 * Pow10(k - 1)

None == [some |-> FALSE, v |-> VNull]

Some(val) == [some |-> TRUE, v |-> val]

ParseU64(s) ==
    LET body == IF s # <<>> /\ s[1] = "+" THEN Tail(s) ELSE s
    IN IF body # <<>> /\ AllDigits(body) THEN Some(VNum(DecVal(body))) ELSE None

ParseI64(s) ==
    LET signed == s # <<>> /\ s[1] \in {"+", "-"}
        body == IF signed THEN Tail(s) ELSE s
    IN IF body # <<>> /\ AllDigits(body)
       THEN Some(VNum(IF signed /\ s[1] = "-" THEN 0 - DecVal(body) ELSE DecVal(body)))
       ELSE None

ParseF64(s) ==
    LET signed == s # <<>> /\ s[1] \in {"+", "-"}
        body == IF signed THEN Tail(s) ELSE s
        dots == {i \in 1..Len(body) : body[i] = "."}
        dot == IF dots = {} THEN Len(body) + 1 ELSE CHOOSE i \in dots : TRUE
        whole == SubSeq(body, 1, dot - 1)
        frac == SubSeq(body, dot + 1, Len(body))
        mant == DecVal(whole \o frac)
    IN IF Cardinality(dots) <= 1 /\ AllDigits(whole) /\ AllDigits(frac)
          /\ Len(whole) + Len(frac) > 0
       THEN Some(VF64(IF signed /\ s[1] = "-" THEN 0 - mant ELSE mant, Pow10(Len(frac))))
       ELSE None

parse_number(ident) ==
    IF ParseU64(ident).some THEN ParseU64(ident)
    ELSE IF ParseI64(ident).some THEN ParseI64(ident)
    ELSE ParseF64(ident)

----------------------------------------------------------------------------
(* Operator catalog (crate::operator, not among the sources): the          *)
(* priorities, arities and classifiers of the specification's section 3.   *)

PriorityOr == 1
PriorityAnd == 2
PriorityCmp == 3
PrioritySum == 4
PriorityMul == 5
PriorityNot == 6
PriorityDot == 7

OpBase == [k |-> "Identifier", p |-> 0, s |-> <<>>, v |-> VNull]

Op(kind, priority) == [OpBase EXCEPT !.k = kind, !.p = priority]

Mark(kind) == [OpBase EXCEPT !.k = kind]

Identifier(name) == [OpBase EXCEPT !.k = "Identifier", !.s = name]

Function(name) == [OpBase EXCEPT !.k = "Function", !.s = name]

ValueOp(val) == [OpBase EXCEPT !.k = "Value", !.v = val]

from_str(s) ==
    CASE s = <<"+">> -> Op("Add", PrioritySum)
      [] s = <<"-">> -> Op("Sub", PrioritySum)
      [] s = <<"*">> -> Op("Mul", PriorityMul)
      [] s = <<"/">> -> Op("Div", PriorityMul)
      [] s = <<"%">> -> Op("Rem", PriorityMul)
      [] s = <<"(">> -> Mark("LeftParenthesis")
      [] s = <<")">> -> Mark("RightParenthesis")
      [] s = <<"[">> -> Op("LeftSquareBracket", PriorityDot)
      [] s = <<"]">> -> Mark("RightSquareBracket")
      [] s = <<".">> -> Op("Dot", PriorityDot)
      [] s = <<"\"">> -> Mark("DoubleQuotes")
      [] s = <<"'">> -> Mark("SingleQuote")
      [] s = <<" ">> -> Mark("WhiteSpace")
      [] s = <<",">> -> Mark("Comma")
      [] s = <<"!">> -> Op("Not", PriorityNot)
      [] s = <<"=", "=">> -> Op("Eq", PriorityCmp)
      [] s = <<"!", "=">> -> Op("Ne", PriorityCmp)
      [] s = <<">">> -> Op("Gt", PriorityCmp)
      [] s = <<"<">> -> Op("Lt", PriorityCmp)
      [] s = <<">", "=">> -> Op("Ge", PriorityCmp)
      [] s = <<"<", "=">> -> Op("Le", PriorityCmp)
      [] s = <<"&", "&">> -> Op("And", PriorityAnd)
      [] s = <<"|", "|">> -> Op("Or", PriorityOr)
      [] OTHER -> Identifier(s)

BinaryKinds == {"Add", "Sub", "Mul", "Div", "Rem", "Eq", "Ne", "Gt", "Lt", "Ge", "Le", "And", "Or"}

PriorityKinds == BinaryKinds \cup {"Not", "Dot", "LeftSquareBracket"}

is_identifier(op) == op.k = "Identifier"

is_dot(op) == op.k = "Dot"

is_left_square_bracket(op) == op.k = "LeftSquareBracket"

is_value_or_ident(op) == op.k \in {"Value", "Identifier"}

is_left(op) == op.k \in {"LeftParenthesis", "LeftSquareBracket", "Function"}

can_at_beginning(op) == op.k \in {"Sub", "Not", "LeftParenthesis", "Add"}

can_have_child(op) == op.k \in PriorityKinds \cup {"Function"}

get_priority(op) == op.p

Unbounded == [some |-> FALSE, n |-> 0]

Bounded(k) == [some |-> TRUE, n |-> k]

get_max_args(op) ==
    IF op.k \in BinaryKinds THEN Bounded(2)
    ELSE IF op.k = "Not" THEN Bounded(1)
    ELSE IF op.k \in {"Dot", "LeftSquareBracket", "Function"} THEN Unbounded
    ELSE Bounded(0)

get_left(op) ==
    IF op.k = "RightParenthesis" THEN Mark("LeftParenthesis")
    ELSE Op("LeftSquareBracket", PriorityDot)

----------------------------------------------------------------------------
(* Node (src/src/node/mod.rs).                                             *)

Node(op, kids, cl) == [operator |-> op, children |-> kids, closed |-> cl]

to_node(op) == Node(op, <<>>, FALSE)

children_to_node(op, kids) == Node(op, kids, FALSE)

add_child(n, c) == [n EXCEPT !.children = Append(@, c)]

close(n) == [n EXCEPT !.closed = TRUE]

is_enough(n) ==
    LET num == get_max_args(n.operator)
    IN IF num.some THEN Len(n.children) = num.n ELSE FALSE

is_value_or_full_children(n) ==
    IF is_value_or_ident(n.operator) THEN TRUE
    ELSE IF can_have_child(n.operator)
         THEN (IF n.closed THEN TRUE ELSE is_enough(n))
         ELSE FALSE

is_unclosed_arithmetic(n) ==
    ~n.closed /\ can_have_child(n.operator) /\ can_have_child(n.operator)

is_unclosed_function(n) == n.operator.k = "Function" /\ ~n.closed

----------------------------------------------------------------------------
(* Lexer pass A: Tree::parse_pos.  Cut points around every operator        *)
(* character outside double quotes; `"` toggles found_quote.               *)

CutChars == {"(", ")", "+", "-", "*", "/", ",", " ", "!", "=", ">", "<", "'",
             "[", "]", ".", "%", "&", "|"}

RECURSIVE scan_pos(_, _, _)
scan_pos(s, index, found_quote) ==
    IF index = Len(s) THEN <<Len(s)>>
    ELSE LET cur == s[index + 1]
         IN IF cur \in CutChars
            THEN (IF ~found_quote THEN <<index, index + 1>> ELSE <<>>)
                 \o scan_pos(s, index + 1, found_quote)
            ELSE IF cur = "\""
            THEN <<index, index + 1>> \o scan_pos(s, index + 1, ~found_quote)
            ELSE scan_pos(s, index + 1, found_quote)

parse_pos(s) == scan_pos(s, 0, FALSE)

----------------------------------------------------------------------------
(* Lexer pass B: Tree::parse_operators.  `lex` holds the locals of the     *)
(* function: the index of the next cut point, end, parenthesis, quote,     *)
(* prev, number and the operators emitted so far.                          *)

LexInit == [i |-> 1, end |-> 0, parenthesis |-> 0, quote |-> "None",
            prev |-> <<>>, number |-> <<>>, ops |-> <<>>, err |-> NoErr]

push_op(l, op) == [l EXCEPT !.ops = Append(@, op)]

PendingCmp == {<<"!">>, <<">">>, <<"<">>}

PendingLogic == {<<"&">>, <<"|">>}

\* lines 151-174: the final match on the operator, then prev = raw; push
lex_emit(l, rawtok, operator) ==
    IF operator.k = "LeftParenthesis"
    THEN LET l1 == [l EXCEPT !.parenthesis = @ + 1]
         IN IF l1.ops # <<>> /\ is_identifier(Last(l1.ops))
            THEN [l1 EXCEPT !.ops = Front(@) \o <<Function(Last(l1.ops).s), operator>>]
            ELSE [l1 EXCEPT !.prev = rawtok, !.ops = Append(@, operator)]
    ELSE IF operator.k = "RightParenthesis"
    THEN [l EXCEPT !.parenthesis = @ - 1, !.prev = rawtok, !.ops = Append(@, operator)]
    ELSE IF operator.k = "WhiteSpace"
    THEN l
    ELSE [l EXCEPT !.prev = rawtok, !.ops = Append(@, operator)]

\* lines 115-149: the two-character operators built with prev
lex_operator(l, rawtok, operator) ==
    IF rawtok = <<"=">>
    THEN IF l.prev \in PendingCmp \cup {<<"=">>}
         THEN [l EXCEPT !.ops = Append(@, from_str(l.prev \o <<"=">>)), !.prev = <<>>]
         ELSE [l EXCEPT !.prev = rawtok]
    ELSE IF rawtok \in PendingCmp
    THEN IF l.prev \in PendingCmp
         THEN [l EXCEPT !.ops = Append(@, from_str(l.prev)), !.prev = <<>>]
         ELSE [l EXCEPT !.prev = rawtok]
    ELSE LET l1 == IF l.prev \in PendingCmp
                   THEN [l EXCEPT !.ops = Append(@, from_str(l.prev)), !.prev = <<>>]
                   ELSE l
         IN IF rawtok \in PendingLogic /\ l1.prev \in PendingLogic
            THEN IF rawtok = l1.prev
                 THEN [l1 EXCEPT !.ops = Append(@, from_str(l1.prev \o rawtok)), !.prev = <<>>]
                 ELSE [l1 EXCEPT !.err = ErrorS("UnsupportedOperator", l1.prev)]
            ELSE IF rawtok \in PendingLogic
            THEN [l1 EXCEPT !.prev = rawtok]
            ELSE lex_emit(l1, rawtok, operator)

\* lines 83-113: quotes, then numbers
lex_token(l, rawtok) ==
    LET operator == from_str(rawtok)
        is_quote == operator.k \in {"DoubleQuotes", "SingleQuote"}
    IN IF is_quote /\ l.quote # "None" /\ l.quote = operator.k
       THEN [l EXCEPT !.ops = Append(@, ValueOp(VStr(l.prev))), !.prev = <<>>,
                      !.quote = "None"]
       ELSE IF is_quote /\ l.quote = "None"
       THEN [l EXCEPT !.quote = operator.k, !.prev = <<>>]
       ELSE IF l.quote # "None"
       THEN [l EXCEPT !.prev = @ \o rawtok]
       ELSE IF parse_number(rawtok).some \/ is_dot(operator)
       THEN [l EXCEPT !.number = @ \o rawtok]
       ELSE lex_operator(
              IF l.number # <<>>
              THEN [l EXCEPT !.ops = Append(@, from_str(l.number)), !.number = <<>>]
              ELSE l,
              rawtok, operator)

\* lines 68-81: one iteration of the loop over self.pos
lex_step(l, s, ps) ==
    LET p == ps[l.i]
    IN IF p = 0 THEN [l EXCEPT !.i = @ + 1]
       ELSE LET rawtok == SubSeq(s, l.end + 1, p)
                l1 == [l EXCEPT !.i = @ + 1, !.end = p]
            IN IF rawtok = <<>> THEN l1 ELSE lex_token(l1, rawtok)

\* lines 177-187: flush the pending number, check the parenthesis counter
lex_finish(l) ==
    LET l1 == IF l.number # <<>> THEN push_op(l, from_str(l.number)) ELSE l
    IN IF l1.parenthesis # 0 THEN [l1 EXCEPT !.err = Error("UnpairedBrackets")] ELSE l1

RECURSIVE lex_run(_, _, _)
lex_run(l, s, ps) ==
    IF l.err # NoErr THEN l
    ELSE IF l.i > Len(ps) THEN lex_finish(l)
    ELSE lex_run(lex_step(l, s, ps), s, ps)

\* the whole of parse_operators on a source text
parse_operators(s) == lex_run(LexInit, s, parse_pos(s))

----------------------------------------------------------------------------
(* Tree builder: the helpers of Tree::parse_node.  Each returns the new    *)
(* stack with the error it raised, or the abort of an unwrap on None.      *)

Built(st) == [st |-> st, err |-> NoErr, abort |-> FALSE]

Failed(name) == [st |-> <<>>, err |-> Error(name), abort |-> FALSE]

Panicked == [st |-> <<>>, err |-> NoErr, abort |-> TRUE]

move_out_last_node(n) == [n EXCEPT !.children = Front(@)]

rob_to(was_robed, robber) ==
    <<move_out_last_node(was_robed), add_child(robber, Last(was_robed.children))>>

append_value_to_last_node(st, operator) ==
    LET n == close(to_node(operator))
    IN IF st # <<>>
       THEN LET prev == Last(st)
                rest == Front(st)
            IN IF is_dot(prev.operator)
               THEN Built(Append(rest, close(add_child(prev, n))))
               ELSE IF is_left_square_bracket(prev.operator)
               THEN Built(st \o <<n>>)
               ELSE IF is_value_or_full_children(prev)
               THEN Failed("DuplicateValueNode")
               ELSE IF is_enough(prev)
               THEN Built(st \o <<n>>)
               ELSE IF can_have_child(prev.operator)
               THEN Built(Append(rest, add_child(prev, n)))
               ELSE Failed("CanNotAddChild")
       ELSE Built(<<n>>)

RECURSIVE get_final_node(_)
get_final_node(st) ==
    IF st = <<>> THEN Failed("NoFinalNode")
    ELSE IF Len(st) = 1 THEN Built(st)
    ELSE LET last == Last(st)
             prev == st[Len(st) - 1]
             rest == SubSeq(st, 1, Len(st) - 2)
         IN IF can_have_child(prev.operator)
            THEN get_final_node(Append(rest, add_child(prev, last)))
            ELSE Failed("CanNotAddChild")

RECURSIVE close_bracket(_, _)
close_bracket(st, bracket) ==
    IF Len(st) < 2 THEN Panicked
    ELSE LET current == Last(st)
             prev == st[Len(st) - 1]
             rest == SubSeq(st, 1, Len(st) - 2)
         IN IF is_left_square_bracket(current.operator)
            THEN Failed("BracketNotWithFunction")
            ELSE IF is_left_square_bracket(prev.operator)
            THEN Built(Append(rest, close(add_child(prev, current))))
            ELSE IF current.operator = bracket
            THEN IF is_unclosed_function(prev)
                 THEN Built(Append(rest, close(prev)))
                 ELSE Failed("BracketNotWithFunction")
            ELSE IF prev.operator = bracket
            THEN LET cur == close(current)
                 IN IF rest # <<>>
                    THEN LET p == Last(rest)
                         IN IF is_unclosed_function(p)
                            THEN Built(Append(Front(rest), add_child(close(p), cur)))
                            ELSE IF is_unclosed_arithmetic(p)
                            THEN Built(Append(Front(rest), add_child(p, cur)))
                            ELSE Built(Append(rest, cur))
                    ELSE Built(<<cur>>)
            ELSE IF ~prev.closed
            THEN LET grown == add_child(prev, current)
                     full == IF is_enough(grown) THEN close(grown) ELSE grown
                 IN IF rest # <<>>
                    THEN close_bracket(Append(rest, full), bracket)
                    ELSE Failed("StartWithNonValueOperator")
            ELSE Failed("StartWithNonValueOperator")

RECURSIVE close_comma_loop(_)
close_comma_loop(st) ==
    IF Len(st) < 2 THEN Panicked
    ELSE LET current == Last(st)
             prev == st[Len(st) - 1]
             rest == SubSeq(st, 1, Len(st) - 2)
         IN IF current.operator.k = "Comma"
            THEN Built(Append(rest, prev))
            ELSE IF is_left(current.operator)
            THEN Built(st)
            ELSE IF is_left(prev.operator)
            THEN IF rest # <<>>
                 THEN LET p == Last(rest)
                      IN IF is_unclosed_function(p)
                         THEN Built(Front(rest) \o <<add_child(p, current), prev>>)
                         ELSE Failed("CommaNotWithFunction")
                 ELSE Failed("CommaNotWithFunction")
            ELSE IF ~prev.closed
            THEN LET grown == add_child(prev, current)
                     full == IF is_enough(grown) THEN close(grown) ELSE grown
                 IN IF rest # <<>>
                    THEN close_comma_loop(Append(rest, full))
                    ELSE Failed("StartWithNonValueOperator")
            ELSE Failed("StartWithNonValueOperator")

close_comma(st) ==
    IF Len(st) < 2 THEN Failed("CommaNotWithFunction") ELSE close_comma_loop(st)

should_rob_closed(prev, operator) == get_priority(prev.operator) < operator.p

\* line 213: rob the last child of an open node of strictly lower priority
should_rob(prev, operator) == get_priority(prev.operator) < operator.p /\ ~prev.closed

\* lines 193-241: the body of the loop of parse_node for one operator
parse_operator(st, operator) ==
    IF operator.k \in PriorityKinds
    THEN IF st # <<>>
         THEN LET prev == Last(st)
                  rest == Front(st)
              IN IF is_value_or_full_children(prev)
                 THEN IF should_rob(prev, operator)
                      THEN IF prev.children = <<>> THEN Panicked
                           ELSE Built(rest \o rob_to(prev, to_node(operator)))
                      ELSE Built(Append(rest, children_to_node(operator, <<prev>>)))
                 ELSE IF can_at_beginning(prev.operator)
                 THEN Built(Append(st, to_node(operator)))
                 ELSE Failed("DuplicateOperatorNode")
         ELSE IF can_at_beginning(operator)
         THEN Built(<<to_node(operator)>>)
         ELSE Failed("StartWithNonValueOperator")
    ELSE IF operator.k \in {"Function", "LeftParenthesis"}
    THEN Built(Append(st, to_node(operator)))
    ELSE IF operator.k = "Comma"
    THEN close_comma(st)
    ELSE IF operator.k \in {"RightParenthesis", "RightSquareBracket"}
    THEN close_bracket(st, get_left(operator))
    ELSE IF operator.k \in {"Value", "Identifier"}
    THEN append_value_to_last_node(st, operator)
    ELSE Built(st)

RECURSIVE parse_node_from(_, _, _)
parse_node_from(st, ops, i) ==
    IF i > Len(ops) THEN get_final_node(st)
    ELSE LET r == parse_operator(st, ops[i])
         IN IF r.err # NoErr \/ r.abort THEN r ELSE parse_node_from(r.st, ops, i + 1)

\* the whole of parse_node on an operator stream
parse_node(ops) == parse_node_from(<<>>, ops, 1)

----------------------------------------------------------------------------
(* Value operations (crate::math, not among the sources): section 4.1 of   *)
(* the specification.  A computation returns Ok or Err without a log.      *)

Good(val) == [ok |-> TRUE, v |-> val, e |-> NoErr]

Bad(er) == [ok |-> FALSE, v |-> VNull, e |-> er]

\* Rust integer division truncates toward zero
TruncDiv(a, b) ==
    LET q == Abs(a) \div Abs(b)
    IN IF (a < 0) = (b < 0) THEN q ELSE 0 - q

TruncRem(a, b) == a - b * TruncDiv(a, b)

Numer(v) == v.n

Denom(v) == IF v.t = "f64" THEN v.d ELSE 1

either_f64(a, b) == a.t = "f64" \/ b.t = "f64"

\* the characters of the input alphabets in ASCII order
CharOrder == <<" ", "!", "\"", "%", "&", "'", "(", ")", "*", "+", ",", "-", ".", "/",
               "0", "1", "2", "3", "4", "5", "6", "7", "8", "9", "<", "=", ">",
               "[", "]", "a", "b", "c", "d", "e", "f", "g", "h", "i", "j", "k", "l",
               "m", "n", "o", "p", "q", "r", "s", "t", "u", "v", "w", "x", "y", "z", "|">>

CharRank(c) == CHOOSE i \in 1..Len(CharOrder) : CharOrder[i] = c

RECURSIVE StrLess(_, _)
StrLess(x, y) ==
    IF y = <<>> THEN FALSE
    ELSE IF x = <<>> THEN TRUE
    ELSE IF Head(x) = Head(y) THEN StrLess(Tail(x), Tail(y))
    ELSE CharRank(Head(x)) < CharRank(Head(y))

DigitChar(d) == CharOrder[CharRank("0") + d]

RECURSIVE NatText(_)
NatText(k) == IF k < 10 THEN <<DigitChar(k)>> ELSE Append(NatText(k \div 10), DigitChar(k % 10))

IntText(k) == IF k < 0 THEN <<"-">> \o NatText(0 - k) ELSE NatText(k)

FracDigits == 17

RECURSIVE FracText(_, _, _)
FracText(r, d, left) ==
    IF r = 0 \/ left = 0 THEN <<>>
    ELSE <<DigitChar((10 * r) \div d)>> \o FracText((10 * r) % d, d, left - 1)

F64Text(v) ==
    LET whole == TruncDiv(v.n, v.d)
        r == Abs(v.n) - Abs(whole) * v.d
    IN (IF v.n < 0 /\ whole = 0 THEN <<"-">> ELSE <<>>) \o IntText(whole) \o <<".">>
       \o (IF r = 0 THEN <<"0">> ELSE FracText(r, v.d, FracDigits))

\* the stringified form used by string concatenation
Stringify(v) ==
    CASE v.t = "str" -> v.s
      [] v.t = "num" -> IntText(v.n)
      [] v.t = "f64" -> F64Text(v)
      [] v.t = "bool" -> IF v.b THEN <<"t", "r", "u", "e">> ELSE <<"f", "a", "l", "s", "e">>
      [] OTHER -> <<"n", "u", "l", "l">>

NumLess(a, b) == Numer(a) * Denom(b) < Numer(b) * Denom(a)

NumEq(a, b) == Numer(a) * Denom(b) = Numer(b) * Denom(a)

RECURSIVE ValueEq(_, _)
ValueEq(a, b) ==
    IF is_number(a) /\ is_number(b) THEN NumEq(a, b)
    ELSE IF a.t # b.t THEN FALSE
    ELSE IF a.t = "arr"
    THEN Len(a.a) = Len(b.a) /\ \A i \in 1..Len(a.a) : ValueEq(a.a[i], b.a[i])
    ELSE IF a.t = "obj"
    THEN DOMAIN a.o = DOMAIN b.o /\ \A key \in DOMAIN a.o : ValueEq(a.o[key], b.o[key])
    ELSE a = b

math_add(a, b) ==
    IF is_number(a) /\ is_number(b)
    THEN IF either_f64(a, b)
         THEN Good(VF64(Numer(a) * Denom(b) + Numer(b) * Denom(a), Denom(a) * Denom(b)))
         ELSE Good(VNum(a.n + b.n))
    ELSE IF a.t \in {"arr", "obj"} \/ b.t \in {"arr", "obj"} THEN Bad(Error("InvalidOperation"))
    ELSE IF a.t = "str" \/ b.t = "str" THEN Good(VStr(Stringify(a) \o Stringify(b)))
    ELSE Bad(Error("ExpectedNumber"))

math_sub(a, b) ==
    IF is_number(a) /\ is_number(b)
    THEN IF either_f64(a, b)
         THEN Good(VF64(Numer(a) * Denom(b) - Numer(b) * Denom(a), Denom(a) * Denom(b)))
         ELSE Good(VNum(a.n - b.n))
    ELSE Bad(Error("ExpectedNumber"))

math_mul(a, b) ==
    IF is_number(a) /\ is_number(b)
    THEN IF either_f64(a, b)
         THEN Good(VF64(Numer(a) * Numer(b), Denom(a) * Denom(b)))
         ELSE Good(VNum(a.n * b.n))
    ELSE Bad(Error("ExpectedNumber"))

math_div(a, b) ==
    IF is_number(a) /\ is_number(b)
    THEN IF Numer(b) = 0 THEN Bad(ErrorS("Custom", <<"divide by zero">>))
         ELSE IF either_f64(a, b)
         THEN Good(VF64(Numer(a) * Denom(b), Denom(a) * Numer(b)))
         ELSE Good(VNum(TruncDiv(a.n, b.n)))
    ELSE Bad(Error("ExpectedNumber"))

math_rem(a, b) ==
    IF is_number(a) /\ is_number(b)
    THEN IF Numer(b) = 0 THEN Bad(ErrorS("Custom", <<"divide by zero">>))
         ELSE IF either_f64(a, b)
         THEN LET x == Numer(a) * Denom(b)
                  y == Numer(b) * Denom(a)
              IN Good(VF64(TruncRem(x, y), Denom(a) * Denom(b)))
         ELSE Good(VNum(TruncRem(a.n, b.n)))
    ELSE Bad(Error("ExpectedNumber"))

math_lt(a, b) ==
    IF is_number(a) /\ is_number(b) THEN Good(VBool(NumLess(a, b)))
    ELSE IF a.t = "str" /\ b.t = "str" THEN Good(VBool(StrLess(a.s, b.s)))
    ELSE Bad(Error("ExpectedNumber"))

math_gt(a, b) == math_lt(b, a)

math_le(a, b) ==
    IF is_number(a) /\ is_number(b) THEN Good(VBool(~NumLess(b, a)))
    ELSE IF a.t = "str" /\ b.t = "str" THEN Good(VBool(~StrLess(b.s, a.s)))
    ELSE Bad(Error("ExpectedNumber"))

math_ge(a, b) == math_le(b, a)

math_and(a, b) ==
    IF a.t # "bool" THEN Bad(ErrorV("ExpectedBoolean", a))
    ELSE IF b.t # "bool" THEN Bad(ErrorV("ExpectedBoolean", b))
    ELSE Good(VBool(a.b /\ b.b))

math_or(a, b) ==
    IF a.t # "bool" THEN Bad(ErrorV("ExpectedBoolean", a))
    ELSE IF b.t # "bool" THEN Bad(ErrorV("ExpectedBoolean", b))
    ELSE Good(VBool(a.b \/ b.b))

\* the Value operation applied by a binary node of the given kind
math(kind, a, b) ==
    CASE kind = "Add" -> math_add(a, b)
      [] kind = "Sub" -> math_sub(a, b)
      [] kind = "Mul" -> math_mul(a, b)
      [] kind = "Div" -> math_div(a, b)
      [] kind = "Rem" -> math_rem(a, b)
      [] kind = "Eq" -> Good(VBool(ValueEq(a, b)))
      [] kind = "Ne" -> Good(VBool(~ValueEq(a, b)))
      [] kind = "Gt" -> math_gt(a, b)
      [] kind = "Lt" -> math_lt(a, b)
      [] kind = "Ge" -> math_ge(a, b)
      [] kind = "Le" -> math_le(a, b)
      [] kind = "And" -> math_and(a, b)
      [] kind = "Or" -> math_or(a, b)

----------------------------------------------------------------------------
(* Functions.  `compiled` names the closure: one of the built-ins of       *)
(* src/src/builtin/mod.rs, or a host closure that returns `ret`.           *)

NoArgs == [some |-> FALSE, n |-> 0]

Args(k) == [some |-> TRUE, n |-> k]

FunctionOf(mn, mx, body, val) ==
    [min_args |-> mn, max_args |-> mx, compiled |-> body, ret |-> val]

HostFunction(mn, mx, val) == FunctionOf(mn, mx, "host", val)

LenName == <<"l", "e", "n">>

MinName == <<"m", "i", "n">>

MaxName == <<"m", "a", "x">>

IsEmptyName == <<"i", "s", "_", "e", "m", "p", "t", "y">>

ArrayName == <<"a", "r", "r", "a", "y">>

create_builtins ==
    (MinName :> FunctionOf(Args(1), NoArgs, "min", VNull))
    @@ (MaxName :> FunctionOf(Args(1), NoArgs, "max", VNull))
    @@ (LenName :> FunctionOf(Args(1), Args(1), "len", VNull))
    @@ (IsEmptyName :> FunctionOf(Args(1), Args(1), "is_empty", VNull))
    @@ (ArrayName :> FunctionOf(NoArgs, NoArgs, "array", VNull))

compare_step_first(cmp, prev, value) ==
    IF prev.ok
    THEN LET c == IF cmp = "min" THEN math_lt(value, prev.v) ELSE math_gt(value, prev.v)
         IN IF ~c.ok THEN [prev EXCEPT !.fail = c.e] ELSE prev
    ELSE [prev EXCEPT !.ok = TRUE, !.v = value]

\* one step of the loop of `compare`: prev is None or Some(value)
compare_step(cmp, prev, value) ==
    IF prev.ok
    THEN LET c == IF cmp = "min" THEN math_lt(value, prev.v) ELSE math_gt(value, prev.v)
         IN IF ~c.ok THEN [prev EXCEPT !.fail = c.e]
            ELSE IF c.v = VBool(TRUE) THEN [prev EXCEPT !.v = value]
            ELSE prev
    ELSE [prev EXCEPT !.ok = TRUE, !.v = value]

RECURSIVE compare_fold(_, _, _)
compare_fold(cmp, prev, values) ==
    IF values = <<>> \/ prev.fail # NoErr THEN prev
    ELSE compare_fold(cmp, compare_step(cmp, prev, Head(values)), Tail(values))

RECURSIVE compare_flat(_)
compare_flat(values) ==
    IF values = <<>> THEN <<>>
    ELSE (IF Head(values).t = "arr" THEN Head(values).a ELSE <<Head(values)>>)
         \o compare_flat(Tail(values))

compare(cmp, values) ==
    LET r == compare_fold(cmp, [ok |-> FALSE, v |-> VNull, fail |-> NoErr], compare_flat(values))
    IN IF r.fail # NoErr THEN Bad(r.fail)
       ELSE IF r.ok THEN Good(r.v)
       ELSE Bad(ErrorS("Custom", <<"can't find min value.">>))

create_is_empty_function(values) ==
    LET v == Head(values)
    IN CASE v.t = "str" -> Good(VBool(v.s = <<>>))
         [] v.t = "arr" -> Good(VBool(v.a = <<>>))
         [] v.t = "obj" -> Good(VBool(DOMAIN v.o = {}))
         [] v.t = "null" -> Good(VBool(TRUE))
         [] OTHER -> Good(VBool(FALSE))

create_len_function(values) ==
    LET v == Head(values)
    IN CASE v.t = "str" -> Good(VNum(Len(v.s)))
         [] v.t = "arr" -> Good(VNum(Len(v.a)))
         [] v.t = "obj" -> Good(VNum(Cardinality(DOMAIN v.o)))
         [] v.t = "null" -> Good(VNum(0))
         [] OTHER -> Bad(ErrorS("Custom", <<"len() only accept string, array, object and null.">>))

\* (function.compiled)(values): the result, or the abort of first().unwrap()
invoke(function, values, lg) ==
    LET lg1 == Append(lg, [ev |-> "call", s |-> <<function.compiled>>, v |-> function.ret])
        done(r) == IF r.ok THEN Ok(r.v, lg1) ELSE Err(r.e, lg1)
    IN CASE function.compiled \in {"min", "max"} -> done(compare(function.compiled, values))
         [] function.compiled = "len" ->
              IF values = <<>> THEN Abort(lg1) ELSE done(create_len_function(values))
         [] function.compiled = "is_empty" ->
              IF values = <<>> THEN Abort(lg1) ELSE done(create_is_empty_function(values))
         [] function.compiled = "array" -> Ok(VArr(values), lg1)
         [] OTHER -> Ok(function.ret, lg1)

check_function_args_no_max(n, function) ==
    LET args_length == Len(n.children)
    IN IF function.min_args.some /\ args_length < function.min_args.n
       THEN ErrorN("ArgumentsLess", function.min_args.n)
       ELSE NoErr

\* Node::check_function_args
check_function_args(n, function) ==
    LET args_length == Len(n.children)
    IN IF function.max_args.some /\ args_length > function.max_args.n
       THEN ErrorN("ArgumentsGreater", function.max_args.n)
       ELSE IF function.min_args.some /\ args_length < function.min_args.n
       THEN ErrorN("ArgumentsLess", function.min_args.n)
       ELSE NoErr

----------------------------------------------------------------------------
(* Context lookup and range literals.                                      *)

RECURSIVE find_outermost(_, _)
find_outermost(cx, key) ==
    IF cx = <<>> THEN None
    ELSE IF key \in DOMAIN Head(cx) THEN Some(Head(cx)[key])
    ELSE find_outermost(Tail(cx), key)

\* lines 627-636: the innermost (last) context that has the key
RECURSIVE find(_, _)
find(cx, key) ==
    IF cx = <<>> THEN None
    ELSE IF key \in DOMAIN Last(cx) THEN Some(Last(cx)[key])
    ELSE find(Front(cx), key)

is_range(ident) == \E i \in 1..(Len(ident) - 1) : ident[i] = "." /\ ident[i + 1] = "."

RECURSIVE split_range(_, _)
split_range(ident, cur) ==
    IF ident = <<>> THEN <<cur>>
    ELSE IF Len(ident) >= 2 /\ ident[1] = "." /\ ident[2] = "."
    THEN <<cur>> \o split_range(SubSeq(ident, 3, Len(ident)), <<>>)
    ELSE split_range(Tail(ident), Append(cur, Head(ident)))

parse_range_inclusive(ident) ==
    LET segments == split_range(ident, <<>>)
    IN IF Len(segments) # 2 THEN Bad(ErrorS("InvalidRange", ident))
       ELSE LET start == ParseI64(segments[1])
                end == ParseI64(segments[2])
            IN IF start.some /\ end.some
               THEN Good(VArr([i \in 1..(IF end.v.n >= start.v.n THEN end.v.n - start.v.n + 1 ELSE 0)
                               |-> VNum(start.v.n + i - 1)]))
               ELSE Bad(ErrorS("InvalidRange", ident))

\* lines 642-663: split on "..", two i64 endpoints, the half-open run start..end
parse_range(ident) ==
    LET segments == split_range(ident, <<>>)
    IN IF Len(segments) # 2 THEN Bad(ErrorS("InvalidRange", ident))
       ELSE LET start == ParseI64(segments[1])
                end == ParseI64(segments[2])
            IN IF start.some /\ end.some
               THEN Good(VArr([i \in 1..(IF end.v.n > start.v.n THEN end.v.n - start.v.n ELSE 0)
                               |-> VNum(start.v.n + i - 1)]))
               ELSE Bad(ErrorS("InvalidRange", ident))

\* serde_json Value::get with a string key / an array index
get_member(v, key) ==
    IF v.t = "obj" /\ key \in DOMAIN v.o THEN Some(v.o[key]) ELSE None

get_index_from_one(v, k) ==
    IF k \in 1..Len(v.a) THEN Some(v.a[k]) ELSE None

get_index(v, k) ==
    IF k + 1 \in 1..Len(v.a) THEN Some(v.a[k + 1]) ELSE None

----------------------------------------------------------------------------
(* Evaluator: exec_node of Tree::compile.  The log lists, in order, the    *)
(* leaves that were evaluated and the function bodies that were invoked.   *)

Leaf(kind, name, val) == [ev |-> kind, s |-> name, v |-> val]

RECURSIVE exec_node(_, _, _, _, _)
RECURSIVE exec_args(_, _, _, _, _, _)
RECURSIVE exec_dot(_, _, _, _, _, _)
RECURSIVE exec_bracket(_, _, _, _, _, _)
RECURSIVE exec_binary(_, _, _, _, _)
RECURSIVE exec_binary_short_circuit(_, _, _, _, _)

\* lines 336-339: the arguments of a call, left to right, stopping at a failure
exec_args(kids, vals, cx, fs, cfs, lg) ==
    IF kids = <<>> THEN [k |-> "ok", vals |-> vals, r |-> Ok(VNull, lg)]
    ELSE LET r == exec_node(Head(kids), cx, fs, cfs, lg)
         IN IF r.k # "ok" THEN [k |-> r.k, vals |-> vals, r |-> r]
            ELSE exec_args(Tail(kids), Append(vals, r.v), cx, fs, cfs, r.log)

Base(kind, val, er) == [k |-> kind, v |-> val, e |-> er]

dot_base_no_null(name, cx) ==
    IF name.t = "str"
    THEN IF find(cx, name.s).some THEN Base("value", find(cx, name.s).v, NoErr)
         ELSE Base("null", VNull, NoErr)
    ELSE IF name.t = "obj" THEN Base("value", name, NoErr)
    ELSE Base("err", VNull, Error("ExpectedObject"))

\* lines 366-377: what the first child of a Dot node stands for
dot_base(name, cx) ==
    IF name.t = "str"
    THEN IF find(cx, name.s).some THEN Base("value", find(cx, name.s).v, NoErr)
         ELSE Base("null", VNull, NoErr)
    ELSE IF name.t = "obj" THEN Base("value", name, NoErr)
    ELSE IF name.t = "null" THEN Base("null", VNull, NoErr)
    ELSE Base("err", VNull, Error("ExpectedObject"))

\* lines 399-410: what the first child of a LeftSquareBracket node stands for
bracket_base(name, cx) ==
    IF name.t = "str"
    THEN IF find(cx, name.s).some THEN Base("value", find(cx, name.s).v, NoErr)
         ELSE Base("null", VNull, NoErr)
    ELSE IF name.t \in {"arr", "obj"} THEN Base("value", name, NoErr)
    ELSE IF name.t = "null" THEN Base("null", VNull, NoErr)
    ELSE Base("err", VNull, Error("ExpectedArray"))

\* lines 362-392: the loop over the children of a Dot node
exec_dot(kids, value, cx, fs, cfs, lg) ==
    IF kids = <<>> THEN (IF value.some THEN Ok(value.v, lg) ELSE Ok(VNull, lg))
    ELSE LET child == Head(kids)
         IN IF ~value.some
            THEN LET name == exec_node(child, cx, fs, cfs, lg)
                 IN IF name.k # "ok" THEN name
                    ELSE LET base == dot_base(name.v, cx)
                         IN IF base.k = "value"
                            THEN exec_dot(Tail(kids), Some(base.v), cx, fs, cfs, name.log)
                            ELSE IF base.k = "null" THEN Ok(VNull, name.log)
                            ELSE Err(base.e, name.log)
            ELSE IF is_identifier(child.operator)
            THEN exec_dot(Tail(kids), get_member(value.v, child.operator.s), cx, fs, cfs, lg)
            ELSE Err(Error("ExpectedIdentifier"), lg)

\* lines 395-439: the loop over the children of a LeftSquareBracket node
exec_bracket(kids, value, cx, fs, cfs, lg) ==
    IF kids = <<>> THEN (IF value.some THEN Ok(value.v, lg) ELSE Ok(VNull, lg))
    ELSE LET name == exec_node(Head(kids), cx, fs, cfs, lg)
         IN IF name.k # "ok" THEN name
            ELSE IF ~value.some
            THEN LET base == bracket_base(name.v, cx)
                 IN IF base.k = "value"
                    THEN exec_bracket(Tail(kids), Some(base.v), cx, fs, cfs, name.log)
                    ELSE IF base.k = "null" THEN Ok(VNull, name.log)
                    ELSE Err(base.e, name.log)
            ELSE IF value.v.t = "obj"
            THEN IF name.v.t = "str"
                 THEN exec_bracket(Tail(kids), get_member(value.v, name.v.s), cx, fs, cfs, name.log)
                 ELSE Err(Error("ExpectedIdentifier"), name.log)
            ELSE IF is_u64(name.v)
            THEN IF value.v.t = "arr"
                 THEN exec_bracket(Tail(kids), get_index(value.v, name.v.n), cx, fs, cfs, name.log)
                 ELSE Err(Error("ExpectedArray"), name.log)
            ELSE Err(Error("ExpectedNumber"), name.log)

NoFunction == [some |-> FALSE, v |-> FunctionOf(NoArgs, NoArgs, "host", VNull)]

resolve_builtin_first(ident, fs, builtin) ==
    IF ident \in DOMAIN builtin THEN Some(builtin[ident])
    ELSE IF ident \in DOMAIN fs THEN Some(fs[ident])
    ELSE NoFunction

\* lines 331-335: function_option, the caller's functions before the built-ins
resolve(ident, fs, builtin) ==
    IF ident \in DOMAIN fs THEN Some(fs[ident])
    ELSE IF ident \in DOMAIN builtin THEN Some(builtin[ident])
    ELSE NoFunction

\* lines 330-350: a call
exec_function(n, cx, fs, cfs, lg) ==
    LET ident == n.operator.s
        builtin == create_builtins
        function_option == resolve(ident, fs, builtin)
        args == exec_args(n.children, <<>>, cx, fs, cfs, lg)
    IN IF args.k # "ok" THEN args.r
       ELSE IF function_option.some
       THEN IF check_function_args(n, function_option.v) # NoErr
            THEN Err(check_function_args(n, function_option.v), args.r.log)
            ELSE invoke(function_option.v, args.vals, args.r.log)
       ELSE IF ident \in DOMAIN cfs
       THEN invoke(cfs[ident], args.vals, args.r.log)
       ELSE Err(ErrorS("FunctionNotExists", ident), args.r.log)

exec_binary_short_circuit(n, cx, fs, cfs, lg) ==
    IF n.children = <<>> THEN Abort(lg)
    ELSE LET left == exec_node(Head(n.children), cx, fs, cfs, lg)
         IN IF left.k # "ok" THEN left
            ELSE IF n.operator.k = "And" /\ left.v = VBool(FALSE) THEN left
            ELSE IF n.operator.k = "Or" /\ left.v = VBool(TRUE) THEN left
            ELSE LET right == exec_node(Last(n.children), cx, fs, cfs, left.log)
                 IN IF right.k # "ok" THEN right
                    ELSE LET m == math(n.operator.k, left.v, right.v)
                         IN IF m.ok THEN Ok(m.v, right.log) ELSE Err(m.e, right.log)

\* lines 267-329: first child, then last child, then the Value operation
exec_binary(n, cx, fs, cfs, lg) ==
    IF n.children = <<>> THEN Abort(lg)
    ELSE LET left == exec_node(Head(n.children), cx, fs, cfs, lg)
         IN IF left.k # "ok" THEN left
            ELSE LET right == exec_node(Last(n.children), cx, fs, cfs, left.log)
                 IN IF right.k # "ok" THEN right
                    ELSE LET m == math(n.operator.k, left.v, right.v)
                         IN IF m.ok THEN Ok(m.v, right.log) ELSE Err(m.e, right.log)

exec_node(n, cx, fs, cfs, lg) ==
    LET kind == n.operator.k
    IN IF kind \in BinaryKinds
       THEN exec_binary(n, cx, fs, cfs, lg)
       ELSE IF kind = "Function"
       THEN exec_function(n, cx, fs, cfs, lg)
       ELSE IF kind = "Value"
       THEN Ok(n.operator.v, Append(lg, Leaf("value", <<>>, n.operator.v)))
       ELSE IF kind = "Not"
       THEN IF n.children = <<>> THEN Abort(lg)
            ELSE LET value == exec_node(Head(n.children), cx, fs, cfs, lg)
                 IN IF value.k # "ok" THEN value
                    ELSE IF value.v.t = "bool" THEN Ok(VBool(~value.v.b), value.log)
                    ELSE IF value.v.t = "null" THEN Ok(VBool(TRUE), value.log)
                    ELSE Err(ErrorV("ExpectedBoolean", value.v), value.log)
       ELSE IF kind = "Dot"
       THEN exec_dot(n.children, None, cx, fs, cfs, lg)
       ELSE IF kind = "LeftSquareBracket"
       THEN exec_bracket(n.children, None, cx, fs, cfs, lg)
       ELSE IF kind = "Identifier"
       THEN LET ident == n.operator.s
                lg1 == Append(lg, Leaf("ident", ident, VNull))
            IN IF parse_number(ident).some THEN Ok(parse_number(ident).v, lg1)
               ELSE IF is_range(ident)
               THEN (IF parse_range(ident).ok THEN Ok(parse_range(ident).v, lg1)
                     ELSE Err(parse_range(ident).e, lg1))
               ELSE IF find(cx, ident).some THEN Ok(find(cx, ident).v, lg1)
               ELSE Ok(VNull, lg1)
       ELSE Err(ErrorS("CanNotExec", <<kind>>), lg)

----------------------------------------------------------------------------
(* The program: compile (parse_pos, parse_operators, parse_node) and then  *)
(* one evaluation of the compiled closure with the caller's contexts,      *)
(* functions and const functions.                                          *)

Env(cx, fs, cfs) == [contexts |-> cx, functions |-> fs, const_functions |-> cfs]

NoFunctions == <<>>

InitWith(sources, envs) ==
    /\ raw \in sources
    /\ \E env \in envs :
          /\ contexts = env.contexts
          /\ functions = env.functions
          /\ const_functions = env.const_functions
    /\ pos = <<>>
    /\ operators = <<>>
    /\ node = <<>>
    /\ lex = LexInit
    /\ parsing_nodes = <<>>
    /\ opi = 1
    /\ pc = "parse_pos"
    /\ err = NoErr
    /\ result = NoResult

\* Tree::parse_pos
ParsePos ==
    /\ pc = "parse_pos"
    /\ pos' = parse_pos(raw)
    /\ pc' = "parse_operators"
    /\ UNCHANGED <<raw, operators, node, lex, parsing_nodes, opi, err,
                   contexts, functions, const_functions, result>>

\* Tree::parse_operators: one iteration of its loop; the last one also
\* flushes the number, checks the brackets and sets self.operators
ParseOperators ==
    /\ pc = "parse_operators"
    /\ LET l == lex_step(lex, raw, pos)
           done == IF l.err = NoErr /\ l.i > Len(pos) THEN lex_finish(l) ELSE l
       IN /\ lex' = done
          /\ IF done.err # NoErr
             THEN pc' = "error" /\ err' = done.err /\ UNCHANGED operators
             ELSE IF done.i > Len(pos)
             THEN pc' = "parse_node" /\ operators' = done.ops /\ UNCHANGED err
             ELSE UNCHANGED <<pc, err, operators>>
    /\ UNCHANGED <<raw, pos, node, parsing_nodes, opi,
                   contexts, functions, const_functions, result>>

\* Tree::parse_node: one iteration of its loop; after the last operator
\* (or at once on an empty stream) get_final_node collapses the stack
ParseNode ==
    /\ pc = "parse_node"
    /\ LET r == IF opi > Len(operators) THEN Built(parsing_nodes)
                ELSE parse_operator(parsing_nodes, operators[opi])
           last == opi >= Len(operators)
           f == IF r.err = NoErr /\ ~r.abort /\ last THEN get_final_node(r.st) ELSE r
       IN IF f.abort
          THEN pc' = "abort" /\ UNCHANGED <<parsing_nodes, node, err, opi>>
          ELSE IF f.err # NoErr
          THEN pc' = "error" /\ err' = f.err /\ UNCHANGED <<parsing_nodes, node, opi>>
          ELSE IF last
          THEN /\ pc' = "compiled"
               /\ node' = f.st
               /\ parsing_nodes' = r.st
               /\ opi' = Len(operators) + 1
               /\ UNCHANGED err
          ELSE /\ parsing_nodes' = r.st
               /\ opi' = opi + 1
               /\ UNCHANGED <<pc, node, err>>
    /\ UNCHANGED <<raw, pos, operators, lex,
                   contexts, functions, const_functions, result>>

\* the compiled closure: exec_node on the root
Exec ==
    /\ pc = "compiled"
    /\ result' = exec_node(node[1], contexts, functions, const_functions, <<>>)
    /\ pc' = "done"
    /\ UNCHANGED <<raw, pos, operators, node, lex, parsing_nodes, opi, err,
                   contexts, functions, const_functions>>

Next == ParsePos \/ ParseOperators \/ ParseNode \/ Exec

MaxSourceLen == 3

SourceAlphabet == {"(", ")", "[", "]", ",", "a", "1", "-", "!"}

Sources == UNION {[1..k -> SourceAlphabet] : k \in 0..MaxSourceLen}

SourceContexts == {<<>>, <<(<<"a">> :> VNum(1))>>, <<(<<"a">> :> VArr(<<VNum(1)>>))>>}

Init == InitWith(Sources, {Env(cx, NoFunctions, NoFunctions) : cx \in SourceContexts})

Spec == Init /\ [][Next]_vars

----------------------------------------------------------------------------
(* Shapes: a tree without its closed flags, as the claims speak of trees.  *)

RECURSIVE Shape(_)
Shape(n) == [operator |-> n.operator,
             children |-> [i \in 1..Len(n.children) |-> Shape(n.children[i])]]

ShapeOf(op, kids) == [operator |-> op, children |-> kids]

RECURSIVE SubShapes(_)
SubShapes(sh) ==
    {sh} \cup UNION {SubShapes(sh.children[i]) : i \in 1..Len(sh.children)}

Compiled == pc \in {"compiled", "done"}

EmptyEnv == Env(<<>>, NoFunctions, NoFunctions)

----------------------------------------------------------------------------
(* Precedence: parenthesis-free chains  v0 op1 v1 ... opn vn.              *)

MaxOps == 3

Operands == <<"1", "a", "b", "c", "d", "g", "h", "k">>

OperandAt(i) == <<Operands[(i % Len(Operands)) + 1]>>

PrecOps == {<<"|", "|">>, <<"&", "&">>, <<"=", "=">>, <<"<">>, <<"+">>, <<"-">>,
            <<"*">>, <<"%">>}

RECURSIVE Chains(_)
Chains(n) ==
    IF n = 0 THEN {OperandAt(0)}
    ELSE {c \o op \o OperandAt(n) : c \in Chains(n - 1), op \in PrecOps}

PrecSources == UNION {Chains(n) : n \in 1..MaxOps}

InitPrecedence == InitWith(PrecSources, {EmptyEnv})

SpecPrecedence == InitPrecedence /\ [][Next]_vars

\* the classical precedence-climbing parser over the priority table
RECURSIVE PrattExpr(_, _, _)
RECURSIVE PrattLoop(_, _, _, _)
PrattExpr(toks, i, minp) == PrattLoop(toks, ShapeOf(toks[i], <<>>), i + 1, minp)

PrattLoop(toks, lhs, i, minp) ==
    IF i > Len(toks) \/ toks[i].p < minp THEN [tree |-> lhs, next |-> i]
    ELSE LET rhs == PrattExpr(toks, i + 1, toks[i].p + 1)
         IN PrattLoop(toks, ShapeOf(toks[i], <<lhs, rhs.tree>>), rhs.next, minp)

Pratt(toks) == PrattExpr(toks, 1, 0).tree

\* C1: for every parenthesis-free chain v0 op1 v1 ... opn vn, parse_node
\* followed by get_final_node succeeds and builds the tree of the classical
\* precedence-climbing parser (higher priority binds tighter, equal
\* priorities group left-to-right).
C1_SameTreeAsPratt ==
    /\ pc \notin {"error", "abort"}
    /\ Compiled => Shape(node[1]) = Pratt(operators)

----------------------------------------------------------------------------
(* Groups: [prefix] ( b [op c] ) [op d [op h]], where the prefix is `a op` *)
(* or one of the operators that may begin an expression, and a + b * c.    *)

MaxPostOps == 2

GroupOps == {<<"|", "|">>, <<"&", "&">>, <<"=", "=">>, <<"+">>, <<"-">>, <<"*">>}

GroupPre == {<<>>, <<"-">>, <<"+">>, <<"!">>} \cup {<<"a">> \o op : op \in GroupOps}

GroupInner == {<<"b">>} \cup {<<"b">> \o op \o <<"c">> : op \in GroupOps}

PostOperands == <<"d", "h", "k", "x">>

RECURSIVE GroupPost(_)
GroupPost(n) ==
    IF n = 0 THEN {<<>>}
    ELSE {c \o op \o <<PostOperands[((n - 1) % Len(PostOperands)) + 1]>> :
            c \in GroupPost(n - 1), op \in GroupOps}

GroupSources ==
    {pre \o <<"(">> \o inner \o <<")">> \o post :
        pre \in GroupPre, inner \in GroupInner,
        post \in UNION {GroupPost(n) : n \in 0..MaxPostOps}}
    \cup {<<"a", "+", "b", "*", "c">>}

InitGroups == InitWith(GroupSources, {EmptyEnv})

SpecGroups == InitGroups /\ [][Next]_vars

HasGroup == \E i \in 1..Len(operators) : operators[i].k = "LeftParenthesis"

GroupOpen == CHOOSE i \in 1..Len(operators) : operators[i].k = "LeftParenthesis"

GroupClose == CHOOSE j \in 1..Len(operators) : operators[j].k = "RightParenthesis"

\* the tree of the text between the parentheses
GroupTree == Shape(parse_node(SubSeq(operators, GroupOpen + 1, GroupClose - 1)).st[1])

StackShapes == UNION {SubShapes(Shape(parsing_nodes[i])) : i \in 1..Len(parsing_nodes)}

IdentShape(c) == ShapeOf(Identifier(<<c>>), <<>>)

\* the operator stream with the whole group replaced by the one operand `g`
Atom == Identifier(<<"g">>)

AtomStream ==
    SubSeq(operators, 1, GroupOpen - 1) \o <<Atom>>
    \o SubSeq(operators, GroupClose + 1, Len(operators))

RECURSIVE StackAfter(_, _)
StackAfter(ops, n) ==
    IF n = 0 THEN <<>> ELSE parse_operator(StackAfter(ops, n - 1), ops[n]).st

\* a shape with the operand `g` replaced by the tree of the group
RECURSIVE Regroup(_)
Regroup(sh) ==
    IF sh.operator = Atom THEN GroupTree
    ELSE ShapeOf(sh.operator, [i \in 1..Len(sh.children) |-> Regroup(sh.children[i])])

Shapes(st) == [i \in 1..Len(st) |-> Shape(st[i])]

\* the operator after the group has just been handled by parse_node
AfterGroupOperator ==
    /\ pc = "parse_node"
    /\ HasGroup
    /\ opi = GroupClose + 2
    /\ operators[GroupClose + 1].k \in BinaryKinds

\* the group stood alone or as the right operand of a binary node
GroupIsRightOperand ==
    \/ GroupOpen = 1
    \/ (GroupOpen > 2 /\ operators[GroupOpen - 1].k \in BinaryKinds)

----------------------------------------------------------------------------
(* Lookup: an identifier evaluated against a stack of contexts.            *)

MaxContexts == 3

CtxKeys == {<<"a">>, <<"b">>}

CtxValues == {VNum(1), VNum(2)}

ContextMaps == UNION {[ks -> CtxValues] : ks \in SUBSET CtxKeys}

ContextStacks == UNION {[1..n -> ContextMaps] : n \in 0..MaxContexts}

InitLookup == InitWith(CtxKeys, {Env(cx, NoFunctions, NoFunctions) : cx \in ContextStacks})

SpecLookup == InitLookup /\ [][Next]_vars

Holders(cx, key) == {i \in 1..Len(cx) : key \in DOMAIN cx[i]}

Innermost(cx, key) ==
    IF Holders(cx, key) = {} THEN VNull
    ELSE cx[CHOOSE i \in Holders(cx, key) : \A j \in Holders(cx, key) : j <= i][key]

\* C3: evaluating the identifier k returns the value bound to k in the
\* innermost (last) context that contains k, whatever outer contexts bind
\* it to, and Null (not an error) when no context contains k.
C3_InnermostWins ==
    /\ pc \notin {"error", "abort"}
    /\ pc = "done" => result.k = "ok" /\ result.v = Innermost(contexts, raw)

\* an inner binding shadowed a different outer binding of the same key
C3_Witness ==
    /\ pc = "done"
    /\ \E i, j \in Holders(contexts, raw) :
          /\ i < j
          /\ contexts[i][raw] # contexts[j][raw]
          /\ result.v = contexts[j][raw]
          /\ \A h \in Holders(contexts, raw) : h <= j

----------------------------------------------------------------------------
(* Nullable chains: the identifier m followed by member accesses and       *)
(* index operations.                                                       *)

MaxChain == 3

Missing == <<"m">>

Accessors == {<<".", "a">>, <<".", "b">>, <<"[", "0", "]">>, <<"[", "a", "]">>,
              <<"[", "'", "k", "'", "]">>}

RECURSIVE AccessChains(_)
AccessChains(n) ==
    IF n = 0 THEN {<<>>}
    ELSE {c \o acc : c \in AccessChains(n - 1), acc \in Accessors}

ChainSources == {Missing \o c : c \in UNION {AccessChains(n) : n \in 1..MaxChain}}

ChainContexts ==
    {<<>>,
     <<(<<"a">> :> VNum(0))>>,
     <<(<<"a">> :> VNum(0)), (<<"b">> :> VObj(<<"a">> :> VNum(1)))>>,
     <<(Missing :> VNum(1))>>,
     <<(Missing :> VObj(<<"a">> :> VArr(<<VNum(5)>>)))>>}

InitChains == InitWith(ChainSources, {Env(cx, NoFunctions, NoFunctions) : cx \in ChainContexts})

SpecChains == InitChains /\ [][Next]_vars

Unbound(key) == \A i \in 1..Len(contexts) : key \notin DOMAIN contexts[i]

\* C4: an identifier bound in no context, followed by a chain of one or
\* more member accesses `.name` and index operations `[i]` in any mix,
\* compiles and evaluates to Null without an error.
C4_MissingChainIsNull ==
    /\ pc \notin {"error", "abort"}
    /\ (pc = "done" /\ Unbound(Missing)) => result.k = "ok" /\ result.v = VNull

\* a mixed chain of three accessors on the unbound identifier was evaluated
C4_Witness ==
    /\ pc = "done"
    /\ Unbound(Missing)
    /\ contexts # <<>>
    /\ raw = Missing \o <<".", "a">> \o <<"[", "0", "]">> \o <<".", "b">>
    /\ result.v = VNull

----------------------------------------------------------------------------
(* Brackets: every source text over a small alphabet.                      *)

MaxBracketLen == 4

BracketAlphabet == {"(", ")", "1", "a", "!", "&", "'", "\""}

Texts(alphabet, n) == UNION {[1..k -> alphabet] : k \in 0..n}

InitBrackets == InitWith(Texts(BracketAlphabet, MaxBracketLen), {EmptyEnv})

SpecBrackets == InitBrackets /\ [][Next]_vars

\* the characters of a text that stand outside its string literals: a quote
\* opens a literal that the next quote of the same kind closes
RECURSIVE OutsideLiterals(_, _)
OutsideLiterals(s, open) ==
    IF s = <<>> THEN <<>>
    ELSE IF Head(s) \in {"'", "\""}
    THEN IF open = "" THEN OutsideLiterals(Tail(s), Head(s))
         ELSE IF open = Head(s) THEN OutsideLiterals(Tail(s), "")
         ELSE OutsideLiterals(Tail(s), open)
    ELSE IF open = "" THEN <<Head(s)>> \o OutsideLiterals(Tail(s), open)
    ELSE OutsideLiterals(Tail(s), open)

Count(s, c) == Cardinality({i \in 1..Len(s) : s[i] = c})

Opened(s) == Count(OutsideLiterals(s, ""), "(")

Closed(s) == Count(OutsideLiterals(s, ""), ")")

LexerDone == pc \notin {"parse_pos", "parse_operators"} /\ lex.err.e # "UnsupportedOperator"

\* C5: when the `(` outside string literals are not as many as the `)`
\* outside string literals (and no earlier lexer error is raised),
\* parse_operators fails with UnpairedBrackets and leaves the operator
\* stream unset; every such `(` and `)` is counted exactly once.
C5_UnpairedBrackets ==
    LexerDone =>
       /\ lex.parenthesis = Opened(raw) - Closed(raw)
       /\ Opened(raw) # Closed(raw) =>
             pc = "error" /\ err = Error("UnpairedBrackets") /\ operators = <<>>

----------------------------------------------------------------------------
(* Calls: name(arg, ...) against the three function registries.            *)

MaxCallArgs == 2

MaxArity == 2

UnknownName == <<"h">>

HostName == <<"g">>

CallNames == {LenName, HostName, UnknownName}

\* z() is a call of a function that no registry has: an argument that fails
FailingArg == <<"z", "(", ")">>

CallArgs == {<<"1">>, <<"a">>, FailingArg}

RECURSIVE ArgLists(_)
ArgLists(n) ==
    IF n = 0 THEN {<<>>}
    ELSE IF n = 1 THEN CallArgs
    ELSE {l \o <<",">> \o a : l \in ArgLists(n - 1), a \in CallArgs}

CallSources ==
    {nm \o <<"(">> \o l \o <<")">> :
        nm \in CallNames, l \in UNION {ArgLists(n) : n \in 0..MaxCallArgs}}

ArgBounds == {NoArgs} \cup {Args(k) : k \in 0..MaxArity}

UserRet == VStr(<<"u">>)

ConstRet == VStr(<<"c">>)

UserFunctions ==
    {NoFunctions}
    \cup {(nm :> HostFunction(mn, mx, UserRet)) :
            nm \in {LenName, HostName}, mn \in ArgBounds, mx \in ArgBounds}

ConstFunctions ==
    {NoFunctions}
    \cup {(nm :> HostFunction(Args(1), Args(1), ConstRet)) : nm \in CallNames}

InitCalls ==
    InitWith(CallSources,
             {Env(<<>>, fs, cfs) : fs \in UserFunctions, cfs \in ConstFunctions})

SpecCalls == InitCalls /\ [][Next]_vars

FirstOpen(s) == CHOOSE i \in 1..Len(s) : s[i] = "(" /\ \A j \in 1..(i - 1) : s[j] # "("

CalledName == SubSeq(raw, 1, FirstOpen(raw) - 1)

ArgText == SubSeq(raw, FirstOpen(raw) + 1, Len(raw) - 1)

ArgCount == IF ArgText = <<>> THEN 0 ELSE Count(ArgText, ",") + 1

ArgsSucceed == Count(ArgText, "z") = 0

CallEntry(f) == [ev |-> "call", s |-> <<f.compiled>>, v |-> f.ret]

Invoked == {result.log[i] : i \in {j \in 1..Len(result.log) : result.log[j].ev = "call"}}

TooMany(f) == f.max_args.some /\ ArgCount > f.max_args.n

TooFew(f) == f.min_args.some /\ ArgCount < f.min_args.n

\* C6: when the name resolves to a caller-supplied or built-in function and
\* all n arguments evaluate successfully, the call fails with
\* ArgumentsGreater(max) if max_args is set and n > max_args, otherwise with
\* ArgumentsLess(min) if min_args is set and n < min_args, and the function
\* body is not invoked; len() fails with ArgumentsLess(1) and len(a, 1) with
\* ArgumentsGreater(1).
C6_ArityChecked ==
    (pc = "done" /\ ArgsSucceed
       /\ (CalledName \in DOMAIN functions \/ CalledName \in DOMAIN create_builtins)) =>
       LET f == IF CalledName \in DOMAIN functions THEN functions[CalledName]
                ELSE create_builtins[CalledName]
       IN /\ TooMany(f) =>
               /\ result.k = "err"
               /\ result.e = ErrorN("ArgumentsGreater", f.max_args.n)
               /\ Invoked = {}
          /\ (~TooMany(f) /\ TooFew(f)) =>
               /\ result.k = "err"
               /\ result.e = ErrorN("ArgumentsLess", f.min_args.n)
               /\ Invoked = {}
          /\ (functions = NoFunctions /\ raw = LenName \o <<"(", ")">>) =>
               result.e = ErrorN("ArgumentsLess", 1)
          /\ (functions = NoFunctions /\ raw = LenName \o <<"(", "a", ",", "1", ")">>) =>
               result.e = ErrorN("ArgumentsGreater", 1)

\* the built-in len was called with two arguments and refused them
C6_Witness ==
    /\ pc = "done"
    /\ functions = NoFunctions
    /\ raw = LenName \o <<"(", "a", ",", "1", ")">>
    /\ result.e = ErrorN("ArgumentsGreater", 1)
    /\ Invoked = {}

\* C7: a call resolves its name among the caller-supplied functions first,
\* then the built-ins, then the const functions: a caller-supplied len
\* shadows the built-in, a const function is used only when neither of the
\* other registries has the name, and a name in none of the three fails with
\* FunctionNotExists(name) (the arguments having evaluated successfully).
C7_ResolutionOrder ==
    (pc = "done" /\ ArgsSucceed) =>
       IF CalledName \in DOMAIN functions
       THEN LET f == functions[CalledName]
            IN /\ Invoked \subseteq {CallEntry(f)}
               /\ result.e.e # "FunctionNotExists"
               /\ (~TooMany(f) /\ ~TooFew(f)) => Invoked # {} /\ result = Ok(UserRet, result.log)
       ELSE IF CalledName \in DOMAIN create_builtins
       THEN LET f == create_builtins[CalledName]
            IN /\ Invoked \subseteq {CallEntry(f)}
               /\ result.e.e # "FunctionNotExists"
               /\ (~TooMany(f) /\ ~TooFew(f)) => Invoked # {}
       ELSE IF CalledName \in DOMAIN const_functions
       THEN /\ Invoked \subseteq {CallEntry(const_functions[CalledName])}
            /\ result.e.e # "FunctionNotExists"
            /\ result.k = "ok" => Invoked # {} /\ result.v = ConstRet
       ELSE /\ result.k = "err"
            /\ result.e = ErrorS("FunctionNotExists", CalledName)
            /\ Invoked = {}

\* a caller-supplied len shadowed the built-in len and a const len
C7_Witness ==
    /\ pc = "done"
    /\ CalledName = LenName
    /\ LenName \in DOMAIN functions
    /\ LenName \in DOMAIN const_functions
    /\ ArgCount = 1
    /\ result.k = "ok"
    /\ result.v = UserRet

----------------------------------------------------------------------------
(* Any short source, compiled and evaluated.                               *)

\* C8: whenever compile succeeded, evaluating the compiled tree ends with a
\* Value or a structured Error and never aborts, also for a tree whose
\* operator node has no child at all, such as the one compiled from `-`.
C8_EvaluationNeverAborts == pc = "done" => result.k \in {"ok", "err"}

\* C9: compile ends with a compiled artifact or a structured lex/parse
\* error and never aborts, also when a `)` or `]` arrives while the
\* builder's stack holds fewer than two nodes, as in `)(` and `a]`.
C9_CompileNeverAborts == pc # "abort"

----------------------------------------------------------------------------
(* Signs: +n and -n for a natural number n.                                *)

MaxOperand == 12

SignSources == {<<sign>> \o NatText(n) : sign \in {"+", "-"}, n \in 0..MaxOperand}

InitSigns == InitWith(SignSources, {EmptyEnv})

SpecSigns == InitSigns /\ [][Next]_vars

Operand == DecVal(Tail(raw))

\* C10: a `+` before a numeric operand n at the start of an expression is a
\* no-op (`+n` evaluates to n) and a `-` before n evaluates to the negation
\* of n (`-3` evaluates to -3).
C10_UnarySign ==
    pc = "done" =>
       /\ result.k = "ok"
       /\ Head(raw) = "+" => result.v = VNum(Operand)
       /\ Head(raw) = "-" => result.v = VNum(0 - Operand)

----------------------------------------------------------------------------
(* Ranges: a..b and len(a..b) for naturals a and b, and every short text   *)
(* of digits and dots that contains two dots in a row.                     *)

MaxEndpoint == 11

MaxRangeLen == 5

RangeAlphabet == {"1", "5", "."}

TwoDots == <<".", ".">>

RangeText(a, b) == NatText(a) \o TwoDots \o NatText(b)

HasTwoDots(s) == \E i \in 1..(Len(s) - 1) : s[i] = "." /\ s[i + 1] = "."

DottedTexts == {t \in Texts(RangeAlphabet, MaxRangeLen) : HasTwoDots(t)}

RangeSources ==
    {RangeText(a, b) : a \in 0..MaxEndpoint, b \in 0..MaxEndpoint}
    \cup {LenName \o <<"(">> \o RangeText(a, b) \o <<")">> : a \in 0..MaxEndpoint, b \in 0..MaxEndpoint}
    \cup DottedTexts

InitRanges == InitWith(RangeSources, {EmptyEnv})

SpecRanges == InitRanges /\ [][Next]_vars

\* the places where a text is an integer literal, two dots, an integer literal
Endpoints(s) ==
    {i \in 1..(Len(s) - 1) :
        /\ SubSeq(s, i, i + 1) = TwoDots
        /\ i > 1 /\ AllDigits(SubSeq(s, 1, i - 1))
        /\ i + 1 < Len(s) /\ AllDigits(SubSeq(s, i + 2, Len(s)))}

RangeFrom(s) == DecVal(SubSeq(s, 1, (CHOOSE i \in Endpoints(s) : TRUE) - 1))

RangeTo(s) == DecVal(SubSeq(s, (CHOOSE i \in Endpoints(s) : TRUE) + 2, Len(s)))

HalfOpen(a, b) == VArr([i \in 1..(IF b > a THEN b - a ELSE 0) |-> VNum(a + i - 1)])

IsCall == Len(raw) > 4 /\ SubSeq(raw, 1, 4) = LenName \o <<"(">>

RangeArg == IF IsCall THEN SubSeq(raw, 5, Len(raw) - 1) ELSE raw

\* C11: the text a..b of two integer literals is lexed as one Identifier
\* and evaluates to the array [a, a+1, ..., b-1], empty when a >= b, so
\* `1..5` yields [1,2,3,4] and `len(1..5)` yields 4; an identifier that
\* contains `..` and is not two i64 endpoints fails with InvalidRange(text).
C11_RangeLiteral ==
    /\ pc \notin {"error", "abort"}
    /\ (pc \in {"parse_node", "compiled", "done"} /\ ~IsCall) => operators = <<Identifier(raw)>>
    /\ (pc \in {"parse_node", "compiled", "done"} /\ IsCall) =>
          operators = <<Function(LenName), from_str(<<"(">>), Identifier(RangeArg), from_str(<<")">>)>>
    /\ pc = "done" =>
          IF Endpoints(RangeArg) # {}
          THEN result = Ok(IF IsCall
                           THEN VNum(Len(HalfOpen(RangeFrom(RangeArg), RangeTo(RangeArg)).a))
                           ELSE HalfOpen(RangeFrom(RangeArg), RangeTo(RangeArg)),
                           result.log)
          ELSE result = Err(ErrorS("InvalidRange", RangeArg), result.log)
    /\ (pc = "done" /\ raw = <<"1", ".", ".", "5">>) =>
          result.v = VArr(<<VNum(1), VNum(2), VNum(3), VNum(4)>>)
    /\ (pc = "done" /\ raw = LenName \o <<"(", "1", ".", ".", "5", ")">>) => result.v = VNum(4)

\* `1..5` was evaluated to [1,2,3,4]
C11_Witness ==
    /\ pc = "done"
    /\ raw = <<"1", ".", ".", "5">>
    /\ operators = <<Identifier(raw)>>
    /\ result.k = "ok"
    /\ result.v = VArr(<<VNum(1), VNum(2), VNum(3), VNum(4)>>)

----------------------------------------------------------------------------
(* min and max over arguments bound in the context to numbers and to       *)
(* arrays of numbers, and the two calls of the specification's examples.   *)

MaxMinArgs == 2

ArgKeys == <<"a", "b", "c", "d">>

Elems == {VNum(0), VNum(2), VF64(1, 2)}

\* an element, or an array of no, one or two elements
ArgValues ==
    Elems \cup {VArr(<<>>)} \cup {VArr(<<x>>) : x \in Elems}
    \cup {VArr(<<x, y>>) : x \in Elems, y \in Elems}

RECURSIVE KeyList(_)
KeyList(n) == IF n = 1 THEN <<ArgKeys[1]>> ELSE KeyList(n - 1) \o <<",", ArgKeys[n]>>

MinMaxCall(name, n) == name \o <<"(">> \o KeyList(n) \o <<")">>

MinOfLiterals == MinName \o <<"(", "1", ",", " ", "2", ",", " ", "3", ")">>

MinOfNothing == MinName \o <<"(">> \o ArrayName \o <<"(", ")", ")">>

Bindings(n) == {<<f>> : f \in [{<<ArgKeys[i]>> : i \in 1..n} -> ArgValues]}

InitMinMax ==
    \/ \E n \in 1..MaxMinArgs :
          InitWith({MinMaxCall(name, n) : name \in {MinName, MaxName}},
                   {Env(cx, NoFunctions, NoFunctions) : cx \in Bindings(n)})
    \/ InitWith({MinOfLiterals, MinOfNothing}, {EmptyEnv})

SpecMinMax == InitMinMax /\ [][Next]_vars

\* the arguments of the call, arrays replaced by their elements
RECURSIVE Flattened(_)
Flattened(i) ==
    IF i = 0 THEN <<>>
    ELSE LET v == contexts[1][<<ArgKeys[i]>>]
         IN Flattened(i - 1) \o (IF v.t = "arr" THEN v.a ELSE <<v>>)

Candidates == IF contexts = <<>> THEN <<>> ELSE Flattened(Cardinality(DOMAIN contexts[1]))

CantFind == ErrorS("Custom", <<"can't find min value.">>)

\* C12: on arguments that are numbers or arrays of numbers, min returns one
\* of the flattened elements such that no element is less than it, max one
\* such that no element is greater than it; with nothing to compare, as in
\* min(array()), the call fails with Custom("can't find min value."); and
\* min(1, 2, 3) is 1.
C12_MinMax ==
    /\ pc \notin {"error", "abort"}
    /\ (pc = "done" /\ contexts # <<>>) =>
          IF Candidates = <<>>
          THEN result = Err(CantFind, result.log)
          ELSE /\ result.k = "ok"
               /\ \E i \in 1..Len(Candidates) : Candidates[i] = result.v
               /\ \A i \in 1..Len(Candidates) :
                     IF SubSeq(raw, 1, 3) = MinName
                     THEN ~NumLess(Candidates[i], result.v)
                     ELSE ~NumLess(result.v, Candidates[i])
    /\ (pc = "done" /\ raw = MinOfLiterals) => result = Ok(VNum(1), result.log)
    /\ (pc = "done" /\ raw = MinOfNothing) => result = Err(CantFind, result.log)

\* min of an array and a number returned an element of the array that came
\* after a larger one
C12_Witness ==
    /\ pc = "done"
    /\ raw = MinMaxCall(MinName, 2)
    /\ contexts[1][<<"a">>] = VArr(<<VNum(2), VNum(0)>>)
    /\ contexts[1][<<"b">>] = VF64(1, 2)
    /\ result = Ok(VNum(0), result.log)

----------------------------------------------------------------------------
(* Indexing: a[i] with a bound to an array or an object and i to any kind  *)
(* of value, and indexes written as literals and expressions.              *)

MaxIndexedLen == 2

MaxIndex == 3

IndexedArrays == {VArr([j \in 1..n |-> VNum(10 + j)]) : n \in 0..MaxIndexedLen}

KeyK == <<"k">>

IndexedObjects == {VObj(<<>>), VObj(KeyK :> VNum(7)), VObj(KeyK :> VArr(<<VNum(8)>>))}

IndexValues ==
    {VNum(k) : k \in (0 - 1)..MaxIndex}
    \cup {VF64(1, 2), VF64(1, 1), VStr(KeyK), VStr(<<"z">>), VStr(<<"0">>),
          VBool(TRUE), VBool(FALSE), VNull, VArr(<<VNum(0)>>)}

IndexByName == <<"a", "[", "i", "]">>

IndexByLiteral == {<<"a", "[">> \o NatText(k) \o <<"]">> : k \in 0..MaxIndex}

IndexByKey == <<"a", "[", "'", "k", "'", "]">>

IndexBySum == <<"a", "[", "1", "+", "1", "]">>

IndexByDifference == <<"a", "[", "0", "-", "1", "]">>

IndexOfCall == ArrayName \o <<"(", "1", ",", " ", "2", ",", " ", "3", ")", "[", "2", "]">>

IndexSources == {IndexByName, IndexByKey, IndexBySum, IndexByDifference, IndexOfCall} \cup IndexByLiteral

IndexContexts ==
    {<<(<<"a">> :> base)>> : base \in IndexedArrays \cup IndexedObjects}
    \cup {<<(<<"a">> :> base) @@ (<<"i">> :> idx)>> :
            base \in IndexedArrays \cup IndexedObjects, idx \in IndexValues}

InitIndex == InitWith(IndexSources, {Env(cx, NoFunctions, NoFunctions) : cx \in IndexContexts})

SpecIndex == InitIndex /\ [][Next]_vars

IndexedBase ==
    IF raw = IndexOfCall THEN VArr(<<VNum(1), VNum(2), VNum(3)>>) ELSE contexts[1][<<"a">>]

\* the value the text between the brackets stands for
IndexValue ==
    IF raw = IndexByName
    THEN (IF <<"i">> \in DOMAIN contexts[1] THEN contexts[1][<<"i">>] ELSE VNull)
    ELSE IF raw = IndexByKey THEN VStr(KeyK)
    ELSE IF raw = IndexBySum THEN VNum(2)
    ELSE IF raw = IndexByDifference THEN VNum(0 - 1)
    ELSE IF raw = IndexOfCall THEN VNum(2)
    ELSE VNum(DecVal(SubSeq(raw, 3, Len(raw) - 1)))

\* C13: base[i] on an array of length n yields element k for an index that
\* is a non-negative integer k < n, Null for k >= n, and fails with
\* ExpectedNumber for any other index value; on an object a string index
\* yields the member, or Null if absent, and any other index fails with
\* ExpectedIdentifier; array(1, 2, 3)[2] is 3.
C13_Indexing ==
    /\ pc \notin {"error", "abort"}
    /\ pc = "done" =>
          LET base == IndexedBase
              idx == IndexValue
          IN IF base.t = "arr"
             THEN IF idx.t = "num" /\ idx.n >= 0
                  THEN result = Ok(IF idx.n < Len(base.a) THEN base.a[idx.n + 1] ELSE VNull,
                                   result.log)
                  ELSE result = Err(Error("ExpectedNumber"), result.log)
             ELSE IF idx.t = "str"
                  THEN result = Ok(IF idx.s \in DOMAIN base.o THEN base.o[idx.s] ELSE VNull,
                                   result.log)
                  ELSE result = Err(Error("ExpectedIdentifier"), result.log)
    /\ (pc = "done" /\ raw = IndexOfCall) => result.v = VNum(3)

\* an index one past the end of an array gave Null
C13_Witness ==
    /\ pc = "done"
    /\ raw = IndexByName
    /\ IndexedBase = VArr(<<VNum(11), VNum(12)>>)
    /\ IndexValue = VNum(2)
    /\ result = Ok(VNull, result.log)

----------------------------------------------------------------------------
(* Binary operators between operands that are a bound identifier, a call   *)
(* of a host function, or a call of a function that does not exist.        *)

BinaryTexts ==
    {<<"+">>, <<"-">>, <<"*">>, <<"/">>, <<"%">>, <<"=", "=">>, <<"!", "=">>, <<">">>, <<"<">>,
     <<">", "=">>, <<"<", "=">>, <<"&", "&">>, <<"|", "|">>}

CallOf(c) == <<c, "(", ")">>

LeftTexts == {<<"a">>, CallOf("f"), CallOf("x")}

RightTexts == {<<"b">>, CallOf("g"), CallOf("y")}

OrderSources == {l \o op \o r : l \in LeftTexts, op \in BinaryTexts, r \in RightTexts}

OperandValues == {VBool(TRUE), VBool(FALSE), VNum(0), VNum(1)}

LeftReturns == {VBool(FALSE), VNum(1)}

RightReturns == {VBool(TRUE), VNum(2)}

OrderEnvs ==
    {Env(<<(<<"a">> :> va) @@ (<<"b">> :> vb)>>,
         (<<"f">> :> HostFunction(NoArgs, NoArgs, rf)) @@ (<<"g">> :> HostFunction(NoArgs, NoArgs, rg)),
         NoFunctions) :
        va \in OperandValues, vb \in OperandValues, rf \in LeftReturns, rg \in RightReturns}

InitOrder == InitWith(OrderSources, OrderEnvs)

SpecOrder == InitOrder /\ [][Next]_vars

LeftText == IF Head(raw) = "a" THEN <<"a">> ELSE SubSeq(raw, 1, 3)

RightText == IF Last(raw) = "b" THEN <<"b">> ELSE SubSeq(raw, Len(raw) - 2, Len(raw))

\* what evaluating an operand alone gives: its value or error, and what it
\* leaves in the log
Alone(text) ==
    IF Len(text) = 1
    THEN Ok(contexts[1][text], <<Leaf("ident", text, VNull)>>)
    ELSE IF <<text[1]>> \in DOMAIN functions
    THEN Ok(functions[<<text[1]>>].ret,
            <<[ev |-> "call", s |-> <<"host">>, v |-> functions[<<text[1]>>].ret]>>)
    ELSE Err(ErrorS("FunctionNotExists", <<text[1]>>), <<>>)

\* C14: a binary node, And and Or included, evaluates its left operand and
\* then its right operand and never short-circuits: a failing left operand
\* gives its error and the right operand is not evaluated; a failing right
\* operand after a successful left one gives the right operand's error,
\* also for `false && <error>` and `true || <error>`; when both succeed both
\* were evaluated, the left one first.
C14_LeftThenRight ==
    /\ pc \notin {"error", "abort"}
    /\ pc = "done" =>
          LET l == Alone(LeftText)
              r == Alone(RightText)
          IN IF l.k = "err" THEN result = Err(l.e, l.log)
             ELSE IF r.k = "err" THEN result = Err(r.e, l.log)
             ELSE result.log = l.log \o r.log

\* `false && <error>`: the left call returned false and the whole failed
\* with the right operand's error
C14_Witness ==
    /\ pc = "done"
    /\ raw = CallOf("f") \o <<"&", "&">> \o CallOf("y")
    /\ functions[<<"f">>].ret = VBool(FALSE)
    /\ result.k = "err"
    /\ result.e = ErrorS("FunctionNotExists", <<"y">>)
    /\ Len(result.log) = 1

----------------------------------------------------------------------------
(* Comparisons: every short text of ! > < = a 1 and the blank.             *)

MaxCmpLen == 3

CmpAlphabet == {"!", ">", "<", "=", "a", "1", " "}

InitComparisons == InitWith(Texts(CmpAlphabet, MaxCmpLen), {EmptyEnv})

SpecComparisons == InitComparisons /\ [][Next]_vars

WordOf(run) == IF run = <<>> THEN <<>> ELSE <<Identifier(run)>>

\* the operator stream the text stands for: a run of letters and digits is
\* one operand, a `!`, `>`, `<` or `=` directly followed by `=` is one
\* two-character operator, any other `!`, `>`, `<` is Not, Gt, Lt
RECURSIVE StreamOf(_, _)
StreamOf(s, run) ==
    IF s = <<>> THEN WordOf(run)
    ELSE IF Head(s) \in {"a", "1"} THEN StreamOf(Tail(s), Append(run, Head(s)))
    ELSE IF Head(s) \in {"!", ">", "<", "="} /\ Len(s) >= 2 /\ s[2] = "="
    THEN WordOf(run) \o <<from_str(<<Head(s), "=">>)>> \o StreamOf(Tail(Tail(s)), <<>>)
    ELSE IF Head(s) \in {"!", ">", "<"}
    THEN WordOf(run) \o <<from_str(<<Head(s)>>)>> \o StreamOf(Tail(s), <<>>)
    ELSE WordOf(run) \o StreamOf(Tail(s), <<>>)

\* C15: every `!`, `>` or `<` that is not directly followed by `=` gives
\* exactly one Not, Gt or Lt in the operator stream, at its place, whatever
\* follows it (a number, an identifier, another `!`, a blank or the end of
\* the text), and `==`, `!=`, `>=`, `<=` each give exactly one Eq, Ne, Ge, Le.
C15_ComparisonOperators ==
    pc \notin {"parse_pos", "parse_operators"} => operators = StreamOf(raw, <<>>)

----------------------------------------------------------------------------
(* Juxtapositions: up to MaxUnits of a group, a call, an identifier, an    *)
(* accessor, a blank and the operators + * !, one after the other.         *)

MaxUnits == 4

Units == {<<"(", "1", ")">>, <<"f", "(", "1", ")">>, <<"a">>, <<".", "b">>, <<" ">>,
          <<"+">>, <<"*">>, <<"!">>}

RECURSIVE UnitTexts(_)
UnitTexts(n) ==
    IF n = 0 THEN {<<>>} ELSE {t \o u : t \in UnitTexts(n - 1), u \in Units}

UnitSources == UNION {UnitTexts(n) : n \in 1..MaxUnits}

InitUnits == InitWith(UnitSources, {EmptyEnv})

SpecUnits == InitUnits /\ [][Next]_vars

RECURSIVE SubNodes(_)
SubNodes(n) == {n} \cup UNION {SubNodes(n.children[i]) : i \in 1..Len(n.children)}

NodesOf(st) == UNION {SubNodes(st[i]) : i \in 1..Len(st)}

\* C16: in every tree returned by a successful parse_node, a node whose
\* operator has a bounded max_args has at most that many children: a binary
\* operator at most 2 and Not at most 1, also after several parenthesised
\* groups in a row.
C16_ArityBound ==
    Compiled =>
       \A n \in SubNodes(node[1]) :
          get_max_args(n.operator).some => Len(n.children) <= get_max_args(n.operator).n

\* m is the node n with further children after those n has
Grafted(n, m) ==
    /\ m.operator = n.operator
    /\ Len(m.children) > Len(n.children)
    /\ SubSeq(m.children, 1, Len(n.children)) = n.children

\* C17: once a node on the builder's stack is closed, no later step of the
\* builder adds a child to it; the collapse at the end of the input does
\* not graft a trailing node onto a closed call or a closed group.
C17_ClosedStaysClosed ==
    [][\A i \in 1..Len(parsing_nodes) :
          parsing_nodes[i].closed =>
             \A m \in (NodesOf(parsing_nodes') \cup NodesOf(node')) \ NodesOf(parsing_nodes) :
                ~Grafted(parsing_nodes[i], m)]_vars

----------------------------------------------------------------------------
(* Calls that resolve to a const function.                                 *)

\* C18: arity is enforced whichever registry the function comes from: a
\* call that resolves to a const function with more arguments than its
\* max_args fails with ArgumentsGreater, with fewer than its min_args with
\* ArgumentsLess, and the const function's body is not invoked.
C18_ConstArityChecked ==
    (/\ pc = "done"
     /\ ArgsSucceed
     /\ CalledName \notin DOMAIN functions
     /\ CalledName \notin DOMAIN create_builtins
     /\ CalledName \in DOMAIN const_functions) =>
       LET f == const_functions[CalledName]
       IN /\ TooMany(f) =>
               /\ result.k = "err"
               /\ result.e = ErrorN("ArgumentsGreater", f.max_args.n)
               /\ Invoked = {}
          /\ (~TooMany(f) /\ TooFew(f)) =>
               /\ result.k = "err"
               /\ result.e = ErrorN("ArgumentsLess", f.min_args.n)
               /\ Invoked = {}

====
